---- MODULE Spec2Model ----
(***************************************************************************)
(* Model of the two browser scripts of the repository:                     *)
(*   - the chat widget (src/script.js): an input field, a send button, a   *)
(*     message log conversationHistory, the display area and the reply     *)
(*     timers scheduled with setTimeout(..., 500); src/unnamed/part_000    *)
(*     is the same script but for building the message block with          *)
(*     innerHTML, and has the same handleUserMessage;                      *)
(*   - the report form (src/unnamed/part_001): a question box, a generate  *)
(*     button whose async click handler awaits fetch and response.json().  *)
(* Strings are sequences of one-character strings; the fixed pieces of a   *)
(* template literal are kept as single elements of such a sequence.        *)
(***************************************************************************)
EXTENDS Integers, Sequences, FiniteSets, TLC

VARIABLES
    inputField,          \* inputField.value
    conversationHistory, \* the array conversationHistory
    displayArea,         \* children of displayArea, oldest first
    timers,              \* pending setTimeout callbacks, in scheduling order
    now,                 \* wall clock, ms since page load
    nAccepted,           \* history: submissions that passed the empty check
    lastEvent,           \* history: the event handled by the last step
    questionBox,         \* questionBox.value
    statusMessage,       \* statusMessage.textContent
    result,              \* result panel as parsed from result.innerHTML
    buttonDisabled,      \* button.disabled
    inflight,            \* click handlers suspended at an await
    requests,            \* bodies of the fetch calls issued so far
    alerts,              \* number of alert() dialogs shown
    nClicksNonEmpty,     \* history: clicks made with a non-empty question
    lastSettled          \* history: outcome of the last completed handler

chatVars == <<inputField, conversationHistory, displayArea, timers, now,
              nAccepted, lastEvent>>
reportVars == <<questionBox, statusMessage, result, buttonDisabled, inflight,
                requests, alerts, nClicksNonEmpty, lastSettled>>
vars == <<chatVars, reportVars>>

----------------------------------------------------------------------------
(* Bounds of the model *)

MaxSubmits == 2      \* accepted chat submissions per run
MaxTime == 1000      \* the clock stops advancing here
MaxClicks == 2       \* accepted report submissions per run

----------------------------------------------------------------------------
(* Strings *)

Whitespace == {" ", "\t", "\n"}

RECURSIVE TrimStart(_)
TrimStart(s) ==
    IF s = <<>> THEN <<>>
    ELSE IF Head(s) \in Whitespace THEN TrimStart(Tail(s)) ELSE s

RECURSIVE TrimEnd(_)
TrimEnd(s) ==
    IF s = <<>> THEN <<>>
    ELSE IF s[Len(s)] \in Whitespace THEN TrimEnd(SubSeq(s, 1, Len(s) - 1))
    ELSE s

\* String.prototype.trim
trim(s) == TrimEnd(TrimStart(s))

IsPrefix(s, t) == Len(s) <= Len(t) /\ SubSeq(t, 1, Len(s)) = s

Contains(t, s) ==
    \E i \in 0..(Len(t) - Len(s)) : SubSeq(t, i + 1, i + Len(s)) = s

\* values a user can leave in a text field
InputValues ==
    { <<>>, <<" ", "\t">>, <<"a">>, <<" ", "a", " ">>, <<"a", " ", "b", "\n">> }

----------------------------------------------------------------------------
(* Chat widget *)

TIMER_DELAY == 500
ClockStep == 250
MsPerSecond == 1000

WelcomeText ==
    <<"Welcome to the Chatbot Test Application! Send a message to get started.">>

\* new Date().toLocaleTimeString(): the clock at a resolution of one second
toLocaleTimeString(t) == t \div MsPerSecond

\* appendMessageToDisplay(sender, content): the new list of children
appendMessageToDisplay(area, sender, content) ==
    Append(area, [sender |-> sender,
                  content |-> <<" ">> \o content \o <<" ">>,
                  time |-> toLocaleTimeString(now)])

\* the array `responses` of generateBotResponse
responses(userMessage) ==
    << <<"I received your message: ", "\"">> \o userMessage \o <<"\"">>,
       <<"That's interesting! You said: ", "\"">> \o userMessage \o <<"\"">>,
       <<"Processing your input: ", "\"">> \o userMessage \o <<"\"">>,
       <<"Thank you for sharing: ", "\"">> \o userMessage \o <<"\"">> >>

\* Math.floor(Math.random() * responses.length)
RandomIndexes == 0..(Len(responses(<<>>)) - 1)

generateBotResponse(userMessage, r) == responses(userMessage)[r + 1]

\* setTimeout(callback, 500): the callback closes over userText
setTimeout(queue, userText) ==
    Append(queue, [due |-> now + TIMER_DELAY, userText |-> userText])

\* variant: the empty check is missing
handleUserMessage_NoGuard ==
    LET userText == trim(inputField) IN
    /\ conversationHistory' =
           Append(conversationHistory, [role |-> "user", message |-> userText])
    /\ displayArea' = appendMessageToDisplay(displayArea, "user", userText)
    /\ inputField' = <<>>
    /\ timers' = setTimeout(timers, userText)

\* variant: the reply is never scheduled
handleUserMessage_NoReply ==
    LET userText == trim(inputField) IN
    IF userText = <<>>
    THEN UNCHANGED <<inputField, conversationHistory, displayArea, timers>>
    ELSE /\ conversationHistory' =
                Append(conversationHistory, [role |-> "user", message |-> userText])
         /\ displayArea' = appendMessageToDisplay(displayArea, "user", userText)
         /\ inputField' = <<>>
         /\ UNCHANGED timers

handleUserMessage ==
    LET userText == trim(inputField) IN
    IF userText = <<>>
    THEN UNCHANGED <<inputField, conversationHistory, displayArea, timers>>
    ELSE /\ conversationHistory' =
                Append(conversationHistory, [role |-> "user", message |-> userText])
         /\ displayArea' = appendMessageToDisplay(displayArea, "user", userText)
         /\ inputField' = <<>>
         /\ timers' = setTimeout(timers, userText)

\* a submission is accepted when the field is non-empty after trimming
Accepted == trim(inputField) # <<>>

\* bookkeeping of a submit event (click or Enter), bounded by MaxSubmits
CountSubmission ==
    /\ Accepted => nAccepted < MaxSubmits
    /\ nAccepted' = IF Accepted THEN nAccepted + 1 ELSE nAccepted

\* the user edits the input field
TypeInput ==
    /\ \E v \in InputValues : inputField' = v
    /\ lastEvent' = "input"
    /\ UNCHANGED <<conversationHistory, displayArea, timers, now, nAccepted>>
    /\ UNCHANGED reportVars

\* sendButton 'click' listener
ClickSend ==
    /\ CountSubmission
    /\ handleUserMessage
    /\ lastEvent' = "click"
    /\ UNCHANGED now
    /\ UNCHANGED reportVars

Keys == {"Enter", "a"}

\* inputField 'keypress' listener
KeyPress ==
    /\ \E key \in Keys :
          /\ IF key = "Enter"
             THEN CountSubmission /\ handleUserMessage
             ELSE UNCHANGED <<inputField, conversationHistory, displayArea,
                              timers, nAccepted>>
          /\ lastEvent' = key
    /\ UNCHANGED now
    /\ UNCHANGED reportVars

\* variant: the most recently scheduled timer runs first
NextTimer_Newest ==
    CHOOSE i \in 1..Len(timers) :
        \A j \in 1..Len(timers) :
            \/ timers[i].due > timers[j].due
            \/ timers[i].due = timers[j].due /\ i >= j

\* the timer the event loop runs next: the earliest due, oldest first
NextTimer ==
    CHOOSE i \in 1..Len(timers) :
        \A j \in 1..Len(timers) :
            \/ timers[i].due < timers[j].due
            \/ timers[i].due = timers[j].due /\ i <= j

\* variant: the callback reads the input field instead of the captured text
TimerCallback_ReadsField(i, r) ==
    LET userText == trim(inputField)
        botReply == generateBotResponse(userText, r) IN
    /\ conversationHistory' =
           Append(conversationHistory, [role |-> "bot", message |-> botReply])
    /\ displayArea' = appendMessageToDisplay(displayArea, "bot", botReply)

\* variant: the reply is put at the front of the log (unshift)
TimerCallback_Unshift(i, r) ==
    LET userText == timers[i].userText
        botReply == generateBotResponse(userText, r) IN
    /\ conversationHistory' =
           <<[role |-> "bot", message |-> botReply]>> \o conversationHistory
    /\ displayArea' = appendMessageToDisplay(displayArea, "bot", botReply)

\* the arrow function passed to setTimeout, for the timer at position i
TimerCallback(i, r) ==
    LET userText == timers[i].userText
        botReply == generateBotResponse(userText, r) IN
    /\ conversationHistory' =
           Append(conversationHistory, [role |-> "bot", message |-> botReply])
    /\ displayArea' = appendMessageToDisplay(displayArea, "bot", botReply)

TimerFire ==
    /\ timers # <<>>
    /\ LET i == NextTimer IN
       /\ timers[i].due <= now
       /\ \E r \in RandomIndexes : TimerCallback(i, r)
       /\ timers' = [k \in 1..(Len(timers) - 1) |->
                        IF k < i THEN timers[k] ELSE timers[k + 1]]
    /\ lastEvent' = "timer"
    /\ UNCHANGED <<inputField, now, nAccepted>>
    /\ UNCHANGED reportVars

Tick ==
    /\ now + ClockStep <= MaxTime
    /\ now' = now + ClockStep
    /\ lastEvent' = "tick"
    /\ UNCHANGED <<inputField, conversationHistory, displayArea, timers, nAccepted>>
    /\ UNCHANGED reportVars

ChatInit ==
    /\ inputField = <<>>
    /\ conversationHistory = <<>>
    /\ now = 0
    /\ displayArea = <<[sender |-> "bot",
                        content |-> <<" ">> \o WelcomeText \o <<" ">>,
                        time |-> 0]>>
    /\ timers = <<>>
    /\ nAccepted = 0
    /\ lastEvent = "load"

----------------------------------------------------------------------------
(* Report form *)

MaxAlerts == 2       \* alert() dialogs per run

EmptyPanel == [text |-> <<>>, links |-> <<>>]

\* the pieces of the template literal assigned to result.innerHTML
MarkupHead == "<p><strong>Research Question:</strong> "
MarkupMiddle == "</p><p><strong>Download Report:</strong> <a href=\""
MarkupTail == "\" target=\"_blank\">Download</a></p>"

ResultMarkup(data) ==
    <<MarkupHead>> \o data.question \o <<MarkupMiddle>> \o data.document_url
        \o <<MarkupTail>>

Letters == {"Q", "U", "i", "x"}

\* The HTML parser run by the innerHTML setter, on the markup above.
\* mode "data": character data; "tag": inside a tag opened in the
\* interpolated text; "href": inside the double-quoted href value;
\* "attrs": inside the <a ...> tag after the href value has been closed.
\* Character references are not modelled (no "&" in the inputs), and the
\* inputs never leave a tag of the interpolated question open.
RECURSIVE ParseMarkup(_, _, _)
ParseMarkup(s, mode, dom) ==
    IF s = <<>> THEN dom
    ELSE
      LET c == Head(s)
          rest == Tail(s)
          link == dom.links[Len(dom.links)]
      IN
      CASE mode = "data" /\ c = MarkupHead ->
               ParseMarkup(rest, "data",
                   [dom EXCEPT !.text = @ \o <<"Research Question:", " ">>])
        [] mode = "data" /\ c = MarkupMiddle ->
               ParseMarkup(rest, "href",
                   [dom EXCEPT !.text = @ \o <<"Download Report:", " ">>,
                               !.links = Append(@, [href |-> <<>>, text |-> <<>>])])
        [] mode = "data" /\ c = "<" /\ rest # <<>> /\ Head(rest) \in Letters \cup {"/"} ->
               ParseMarkup(rest, "tag", dom)
        [] mode = "data" /\ c \notin {MarkupHead, MarkupMiddle}
               /\ ~(c = "<" /\ rest # <<>> /\ Head(rest) \in Letters \cup {"/"}) ->
               ParseMarkup(rest, "data", [dom EXCEPT !.text = @ \o <<c>>])
        [] mode = "tag" /\ c = ">" -> ParseMarkup(rest, "data", dom)
        [] mode = "tag" /\ c # ">" -> ParseMarkup(rest, "tag", dom)
        [] mode = "href" /\ c = "\"" -> ParseMarkup(rest, "attrs", dom)
        [] mode \in {"href", "attrs"} /\ c = MarkupTail ->
               ParseMarkup(rest, "data",
                   [dom EXCEPT !.text = @ \o <<"Download">>,
                               !.links[Len(dom.links)] =
                                   [link EXCEPT !.text = <<"Download">>]])
        [] mode = "href" /\ c \notin {"\"", MarkupTail} ->
               ParseMarkup(rest, "href",
                   [dom EXCEPT !.links[Len(dom.links)] =
                                   [link EXCEPT !.href = @ \o <<c>>]])
        [] mode = "attrs" /\ c # MarkupTail -> ParseMarkup(rest, "attrs", dom)

\* result.innerHTML = markup
SetInnerHTML(markup) == ParseMarkup(markup, "data", EmptyPanel)

\* what the endpoint can answer
StatusTexts == { <<"Internal Server Error">>, <<>> }
NetworkMessages == { <<"Failed to fetch">> }
ParseMessages == { <<"Unexpected token < in JSON at position 0">> }
Questions == { <<"Q">>, <<"<", "i", ">", "Q", "<", "/", "i", ">">> }
DocumentUrls == { <<"U">>, <<"U", "\"", "x">> }
Bodies == [question : Questions, document_url : DocumentUrls]

NoOutcome == [kind |-> "none", statusText |-> <<>>, question |-> <<>>,
              document_url |-> <<>>]

\* variant: the empty check is missing
ClickHandler_NoGuard ==
    LET researchQuestion == trim(questionBox) IN
    /\ statusMessage' = <<"Generating report, please wait...">>
    /\ result' = EmptyPanel
    /\ buttonDisabled' = TRUE
    /\ requests' = Append(requests, [question |-> researchQuestion])
    /\ inflight' = Append(inflight, [pc |-> "fetch"])
    /\ UNCHANGED alerts

\* variant: the button is not disabled while the request is in flight
ClickHandler_NoDisable ==
    LET researchQuestion == trim(questionBox) IN
    IF researchQuestion = <<>>
    THEN /\ alerts' = alerts + 1
         /\ UNCHANGED <<statusMessage, result, buttonDisabled, inflight, requests>>
    ELSE /\ statusMessage' = <<"Generating report, please wait...">>
         /\ result' = EmptyPanel
         /\ UNCHANGED buttonDisabled
         /\ requests' = Append(requests, [question |-> researchQuestion])
         /\ inflight' = Append(inflight, [pc |-> "fetch"])
         /\ UNCHANGED alerts

\* lines 9-26 of the click listener: up to the first await
ClickHandler ==
    LET researchQuestion == trim(questionBox) IN
    IF researchQuestion = <<>>
    THEN /\ alerts' = alerts + 1
         /\ UNCHANGED <<statusMessage, result, buttonDisabled, inflight, requests>>
    ELSE /\ statusMessage' = <<"Generating report, please wait...">>
         /\ result' = EmptyPanel
         /\ buttonDisabled' = TRUE
         /\ requests' = Append(requests, [question |-> researchQuestion])
         /\ inflight' = Append(inflight, [pc |-> "fetch"])
         /\ UNCHANGED alerts

\* catch (error): statusMessage.textContent = `Error: ${error.message}`
Catch(message) == statusMessage' = <<"Error: ">> \o message

\* variant: the button is not re-enabled
Finally_Skipped == UNCHANGED buttonDisabled

\* finally: button.disabled = false
Finally == buttonDisabled' = FALSE

\* new Error(`Error: ${response.statusText}`).message
HttpErrorMessage(statusText) == <<"Error: ">> \o statusText

Remove(q, i) ==
    [k \in 1..(Len(q) - 1) |-> IF k < i THEN q[k] ELSE q[k + 1]]

\* the user edits the question box
TypeQuestion ==
    /\ \E v \in InputValues : questionBox' = v
    /\ UNCHANGED <<statusMessage, result, buttonDisabled, inflight, requests,
                   alerts, nClicksNonEmpty, lastSettled>>
    /\ UNCHANGED chatVars

\* a click on the generate button; a disabled button dispatches no click
Click ==
    /\ ~buttonDisabled
    /\ IF trim(questionBox) # <<>>
       THEN /\ nClicksNonEmpty < MaxClicks
            /\ nClicksNonEmpty' = nClicksNonEmpty + 1
       ELSE /\ alerts < MaxAlerts
            /\ UNCHANGED nClicksNonEmpty
    /\ ClickHandler
    /\ UNCHANGED <<questionBox, lastSettled>>
    /\ UNCHANGED chatVars

\* fetch rejects (network failure): catch, finally
FetchRejects ==
    /\ \E i \in 1..Len(inflight) :
          /\ inflight[i].pc = "fetch"
          /\ inflight' = Remove(inflight, i)
    /\ \E m \in NetworkMessages :
          /\ Catch(m)
          /\ lastSettled' = [NoOutcome EXCEPT !.kind = "network"]
    /\ Finally
    /\ UNCHANGED <<questionBox, result, requests, alerts, nClicksNonEmpty>>
    /\ UNCHANGED chatVars

\* fetch resolves with !response.ok: throw, catch, finally
FetchRespondsNotOk ==
    /\ \E i \in 1..Len(inflight) :
          /\ inflight[i].pc = "fetch"
          /\ inflight' = Remove(inflight, i)
    /\ \E statusText \in StatusTexts :
          /\ Catch(HttpErrorMessage(statusText))
          /\ lastSettled' = [NoOutcome EXCEPT !.kind = "http",
                                              !.statusText = statusText]
    /\ Finally
    /\ UNCHANGED <<questionBox, result, requests, alerts, nClicksNonEmpty>>
    /\ UNCHANGED chatVars

\* fetch resolves with response.ok: the handler awaits response.json()
FetchRespondsOk ==
    /\ \E i \in 1..Len(inflight) :
          /\ inflight[i].pc = "fetch"
          /\ inflight' = [inflight EXCEPT ![i].pc = "json"]
    /\ UNCHANGED <<questionBox, statusMessage, result, buttonDisabled, requests,
                   alerts, nClicksNonEmpty, lastSettled>>
    /\ UNCHANGED chatVars

\* response.json() rejects (body is not JSON): catch, finally
JsonRejects ==
    /\ \E i \in 1..Len(inflight) :
          /\ inflight[i].pc = "json"
          /\ inflight' = Remove(inflight, i)
    /\ \E m \in ParseMessages :
          /\ Catch(m)
          /\ lastSettled' = [NoOutcome EXCEPT !.kind = "parse"]
    /\ Finally
    /\ UNCHANGED <<questionBox, result, requests, alerts, nClicksNonEmpty>>
    /\ UNCHANGED chatVars

\* response.json() resolves with data: lines 31-35, finally
JsonResolves ==
    /\ \E i \in 1..Len(inflight) :
          /\ inflight[i].pc = "json"
          /\ inflight' = Remove(inflight, i)
    /\ \E data \in Bodies :
          /\ statusMessage' = <<"Report generated successfully!">>
          /\ result' = SetInnerHTML(ResultMarkup(data))
          /\ lastSettled' = [kind |-> "success", statusText |-> <<>>,
                             question |-> data.question,
                             document_url |-> data.document_url]
    /\ Finally
    /\ UNCHANGED <<questionBox, requests, alerts, nClicksNonEmpty>>
    /\ UNCHANGED chatVars

ReportInit ==
    /\ questionBox = <<>>
    /\ statusMessage = <<>>
    /\ result = EmptyPanel
    /\ buttonDisabled = FALSE
    /\ inflight = <<>>
    /\ requests = <<>>
    /\ alerts = 0
    /\ nClicksNonEmpty = 0
    /\ lastSettled = NoOutcome

Init == ChatInit /\ ReportInit

ChatNext == TypeInput \/ ClickSend \/ KeyPress \/ TimerFire \/ Tick

SpecChat == Init /\ [][ChatNext]_vars

ReportNext ==
    \/ TypeQuestion
    \/ Click
    \/ FetchRejects
    \/ FetchRespondsNotOk
    \/ FetchRespondsOk
    \/ JsonRejects
    \/ JsonResolves

SpecReport == Init /\ [][ReportNext]_vars

----------------------------------------------------------------------------
(* Properties of the chat widget, checked under SpecChat *)

SubmitEvents == {"click", "Enter"}

Last(q) == q[Len(q)]

UserMessages == SelectSeq(conversationHistory, LAMBDA e : e.role = "user")
BotMessages == SelectSeq(conversationHistory, LAMBDA e : e.role = "bot")

InResponses(message, userText) ==
    \E r \in RandomIndexes : message = generateBotResponse(userText, r)

Quoted(userText) == <<"\"">> \o userText \o <<"\"">>

\* C1: a submission whose input is non-empty after trimming appends exactly
\* one user message in the submit step and schedules one reply; a timer
\* firing appends exactly one bot message; so the log always holds two
\* entries per accepted submission, less one per reply still pending, and
\* 2n entries once the timers of n accepted submissions have all fired.
C1_TwoEntriesPerSubmission ==
    [][ /\ (lastEvent' \in SubmitEvents /\ Accepted) =>
              /\ conversationHistory' =
                     Append(conversationHistory,
                            [role |-> "user", message |-> trim(inputField)])
              /\ Len(timers') = Len(timers) + 1
        /\ (lastEvent' = "timer") =>
              /\ Len(conversationHistory') = Len(conversationHistory) + 1
              /\ SubSeq(conversationHistory', 1, Len(conversationHistory))
                     = conversationHistory
              /\ Last(conversationHistory').role = "bot"
              /\ Len(timers') = Len(timers) - 1
        /\ Len(conversationHistory') = 2 * nAccepted' - Len(timers')
      ]_vars

\* two overlapping submissions, both answered: four entries
C1_Witness ==
    /\ nAccepted = 2
    /\ timers = <<>>
    /\ Len(conversationHistory) = 4
    /\ conversationHistory[2].role = "user"

\* C2: a submit event on an empty or whitespace-only field changes neither
\* the log, nor the display area, nor the field, nor the pending timers.
C2_EmptyInputIsNoOp ==
    [][ (lastEvent' \in SubmitEvents /\ ~Accepted) =>
            UNCHANGED <<conversationHistory, displayArea, inputField, timers>>
      ]_vars

\* a whitespace-only field after a submit event on it
C2_Witness ==
    /\ lastEvent \in SubmitEvents
    /\ inputField # <<>>
    /\ trim(inputField) = <<>>

\* C3: every bot message of the log is one of the four templates applied to
\* the text of an earlier user message of the log, and contains that text
\* between double quotes, whatever the input field holds.
C3_ReplyQuotesUserText ==
    \A p \in 1..Len(conversationHistory) :
        conversationHistory[p].role = "bot" =>
            \E q \in 1..(p - 1) :
                /\ conversationHistory[q].role = "user"
                /\ InResponses(conversationHistory[p].message,
                               conversationHistory[q].message)
                /\ Contains(conversationHistory[p].message,
                            Quoted(conversationHistory[q].message))

\* a reply quoting "a" appended while the field holds other text
C3_Witness ==
    /\ lastEvent = "timer"
    /\ inputField = <<"a", " ", "b", "\n">>
    /\ InResponses(Last(conversationHistory).message, <<"a">>)

\* C8: the log only grows at its end (every earlier log is a prefix of every
\* later one) and its entries are in creation order: entry k is the one
\* rendered as child k+1 of the display area, whose timestamps never decrease.
Chronological(history, area) ==
    /\ Len(area) = Len(history) + 1
    /\ \A k \in 1..Len(history) :
          /\ area[k + 1].sender = history[k].role
          /\ area[k + 1].content = <<" ">> \o history[k].message \o <<" ">>
          /\ area[k].time <= area[k + 1].time

C8_AppendOnly ==
    [][ /\ IsPrefix(conversationHistory, conversationHistory')
        /\ Chronological(conversationHistory', displayArea')
      ]_vars

\* a reply logged between two user messages
C8_Witness ==
    /\ Len(conversationHistory) = 3
    /\ conversationHistory[2].role = "bot"
    /\ conversationHistory[3].role = "user"

\* C10: there are never more bot messages than user messages, and the k-th
\* bot message is a template applied to the k-th user message.
C10_RepliesInOrder ==
    /\ Len(BotMessages) <= Len(UserMessages)
    /\ \A k \in 1..Len(BotMessages) :
          InResponses(BotMessages[k].message, UserMessages[k].message)

\* two different texts submitted before either reply, both answered
C10_Witness ==
    /\ Len(conversationHistory) = 4
    /\ conversationHistory[1].role = "user"
    /\ conversationHistory[2].role = "user"
    /\ conversationHistory[1].message # conversationHistory[2].message
    /\ Len(BotMessages) = 2

----------------------------------------------------------------------------
(* Properties of the report form, checked under SpecReport *)

Settled == inflight = <<>> /\ lastSettled.kind # "none"

\* C4: after a non-2xx answer with status text S the status region reads
\* exactly "Error: " followed by S, and the button is enabled.
C4_StatusIsErrorStatusText ==
    (Settled /\ lastSettled.kind = "http") =>
        /\ statusMessage = <<"Error: ">> \o lastSettled.statusText
        /\ ~buttonDisabled

\* C5: the requests issued are exactly the clicks made with a question that
\* is non-empty after trimming; none carries an empty question.
C5_NoRequestForEmptyQuestion ==
    /\ Len(requests) = nClicksNonEmpty
    /\ \A k \in 1..Len(requests) : requests[k].question # <<>>

\* an empty click was made and refused, next to an accepted one
C5_Witness ==
    /\ alerts > 0
    /\ nClicksNonEmpty > 0
    /\ Len(requests) = nClicksNonEmpty

\* C6: whatever the outcome of the request, once it has settled the submit
\* button is enabled.
C6_ButtonEnabledAfterSettle ==
    inflight = <<>> => ~buttonDisabled

\* a handler ended by a body that is not JSON
C6_Witness ==
    /\ Settled
    /\ lastSettled.kind = "parse"
    /\ ~buttonDisabled

\* C7: after a success answer {question: Q, document_url: U} the result
\* panel contains the text Q and a link whose href is U and the status reads
\* "Report generated successfully!"; after a failure the panel is empty.
C7_ResultShowsQuestionAndLink ==
    /\ (Settled /\ lastSettled.kind = "success") =>
          /\ Contains(result.text, lastSettled.question)
          /\ \E k \in 1..Len(result.links) :
                 result.links[k].href = lastSettled.document_url
          /\ statusMessage = <<"Report generated successfully!">>
    /\ (Settled /\ lastSettled.kind \in {"network", "http", "parse"}) =>
          result = EmptyPanel

\* C9: while a request is in flight the button is disabled, and at most one
\* request is in flight.
C9_SingleFlight ==
    /\ inflight # <<>> => buttonDisabled
    /\ Len(inflight) <= 1

\* a second submission in flight after the first one has settled
C9_Witness ==
    /\ Len(requests) = 2
    /\ Len(inflight) = 1
    /\ inflight[1].pc = "json"
    /\ buttonDisabled

====
